---------------------------- MODULE Spec2Model ----------------------------
(***************************************************************************)
(* A model of soi, a terminal music player (src/src/*.rs).                 *)
(*                                                                         *)
(*   SpecPlaylist  the Playlist cursor API (playlist.rs) under arbitrary   *)
(*                 call sequences                                          *)
(*   SpecBuild     Playlist::from: the extraction worker pool, the         *)
(*                 completion channel, the sort, and main() up to the      *)
(*                 start of the main loop                                  *)
(*   SpecPool      Playlist::from on more files than the pool has workers  *)
(*   Spec          main()'s event loop with the Backend, the input thread  *)
(*                 and the playback engine's streaming thread              *)
(*   SpecDisplay   Spec with the Backend's timer and the redraws           *)
(*   SpecFair      Spec with the scheduling of the glib main loop          *)
(*   SpecAuto      the event loop with no key pressed and no request of    *)
(*                 the engine failing                                      *)
(*   SpecSeek      Backend::seek_forward and seek_backward (backend.rs)    *)
(*   SpecSong      Song::read_metadata (song.rs) on file names and tags    *)
(*   SpecExtract   Song::from (song.rs): the extraction of one file        *)
(*                                                                         *)
(* Rust's Option<T> is a sequence of length at most one: None is <<>> and  *)
(* Some(x) is <<x>>.  Vec indices are 0-based as in the source; a Vec is   *)
(* a TLA+ sequence, so index i of the source is element i + 1.             *)
(***************************************************************************)
EXTENDS Integers, Sequences, FiniteSets

VARIABLES
    playlist,    \* Playlist { store, currently_playing }        (playlist.rs:16)
    call,        \* the last method called (SpecPlaylist, SpecSeek, SpecSong)
    ret,         \* what that call returned
    pre,         \* what that call was made on
    files,       \* SpecBuild: the (i, file) pairs `from` iterates over
    task,        \* SpecBuild: per pair, "new" | "queued" | "running" | "done"
    rx,          \* SpecBuild: the mpsc channel of (i, Option<Song>)
    pc,          \* where the main thread is
    stderr,      \* lines written to the error stream
    playbin,     \* the playback engine element: state, uri, mute
    next_uri,    \* Backend.next_uri                              (backend.rs:16)
    main_chan,   \* the Backend -> main() channel                 (backend.rs:46)
    input_chan,  \* the input thread -> main() channel            (main.rs:45)
    bus,         \* the engine's message bus
    stream,      \* the engine's streaming thread: "idle" | "streaming" |
                 \* "draining" | "eos"
    enq,         \* the argument of the last Backend::enqueue call
    output,      \* Output { lines_printed, display_help }    (output.rs:17)
    track_info   \* Song::get_track_info: `duration`, `tags`   (song.rs:67-68)

vars == <<playlist, call, ret, pre, files, task, rx, pc, stderr, playbin,
          next_uri, main_chan, input_chan, bus, stream, enq, output,
          track_info>>

playlistVars == <<call, ret, pre>>
buildVars    == <<files, task, rx>>
backendVars  == <<playbin, next_uri, main_chan, bus, stream, enq>>

-----------------------------------------------------------------------------
(* Bounds of the model *)

\* longest playlist of SpecPlaylist and Spec
MaxTracks == 3
\* number of distinct file paths of SpecPlaylist and Spec
NPaths == 3
\* longest file name of SpecSong, in characters
MaxName == 3
\* latest position, in seconds, the engine reports to a seek
MaxPos == 30
\* most files the command line arguments of SpecBuild expand to
MaxFiles == 3
\* most command line arguments of SpecBuild
MaxArgs == 2
\* most key presses waiting in the input channel
MaxInput == 1
\* the engine and the input handlers send to the Backend channel only
\* while it holds no more than this many messages afterwards
MaxChan == 3
\* most messages waiting on the engine's bus
MaxBus == 1
\* most files of SpecPool: one more than the pool has workers
MaxPoolFiles == 9
\* the timer sends a snapshot only while fewer than this many wait in the
\* Backend channel
MaxState == 1

-----------------------------------------------------------------------------
(* Option<T> *)

None == <<>>
Some(x) == <<x>>
IsSome(o) == o # <<>>
Unwrap(o) == o[1]

\* Output::new (output.rs:25-31)
NewOutput == output = [lines_printed |-> 0, display_help |-> FALSE]

\* no extraction under way
NoExtraction == track_info = [duration |-> None, tags |-> None]

-----------------------------------------------------------------------------
(* traits/path_to_uri.rs: a path becomes a "file://" URI *)

to_uri(path) == <<"file://", path>>

-----------------------------------------------------------------------------
(* playlist.rs: the cursor API.  Every method is an operator from the      *)
(* Playlist to the pair (Playlist afterwards, value returned).             *)

\* Vec::get(i) for a usize i
Get(store, i) == IF i < Len(store) THEN Some(store[i + 1]) ELSE None

NewPlaylist(store) == [store |-> store, currently_playing |-> 0]

Playlist_current(p) ==
    [playlist |-> p, ret |-> Get(p.store, p.currently_playing)]

\* a next() that forgets the `?` on the lookup
Playlist_next_unchecked(p) ==
    [playlist |-> [p EXCEPT !.currently_playing = @ + 1],
     ret      |-> Get(p.store, p.currently_playing + 1)]

Playlist_next(p) ==
    LET song == Get(p.store, p.currently_playing + 1)
    IN  IF song = None
        THEN [playlist |-> p, ret |-> None]
        ELSE [playlist |-> [p EXCEPT !.currently_playing = @ + 1],
              ret      |-> song]

\* a prev() that stays on the first track and returns it
Playlist_prev_saturating(p) ==
    LET q == [p EXCEPT !.currently_playing = IF @ = 0 THEN 0 ELSE @ - 1]
    IN  [playlist |-> q, ret |-> Get(q.store, q.currently_playing)]

Playlist_prev(p) ==
    IF p.currently_playing = 0      \* checked_sub(1) is None
    THEN [playlist |-> p, ret |-> None]
    ELSE LET q == [p EXCEPT !.currently_playing = @ - 1]
         IN  [playlist |-> q, ret |-> Get(q.store, q.currently_playing)]

\* a peek() that advances like next()
Playlist_peek_advancing(p) == Playlist_next(p)

Playlist_peek(p) ==
    [playlist |-> p, ret |-> Get(p.store, p.currently_playing + 1)]

-----------------------------------------------------------------------------
(* song.rs: the metadata of one file.  Tag values (names, years, numbers)  *)
(* are naturals, ordered as the strings they stand for are ordered.        *)
(* A String built by format! is the sequence of the values formatted into  *)
(* it, compared lexicographically as Rust compares Strings.                *)

\* "Unknown album" and "Unknown artist" (song.rs:118, song.rs:123)
UnknownAlbum == 0
UnknownArtist == 0

NoTags == [album |-> None, artist |-> None, album_artist |-> None,
           title |-> None, track_number |-> None, year |-> None]

\* Characters of file names.  The two that Debug formatting escapes
Quote == "\""
Backslash == "\\"
Dot == "."

\* Path::file_stem.  The path of a file read for its metadata is written
\* as its file name, a sequence of characters.  The stem is the name up to
\* its last dot, the whole name when it has no dot or only a leading one.
file_stem(name) ==
    LET dots == {j \in 1 .. Len(name) : name[j] = Dot}
        last == IF dots = {} THEN 0
                ELSE CHOOSE j \in dots : \A k \in dots : k <= j
    IN  IF name = <<Dot, Dot>> \/ last <= 1
        THEN name
        ELSE SubSeq(name, 1, last - 1)

\* char::escape_debug on the characters of the model
escape_debug(c) == IF c \in {Quote, Backslash} THEN <<Backslash, c>> ELSE <<c>>

\* format!("{:?}", os_str): the escaped characters between two quotes
RECURSIVE EscapedChars(_)
EscapedChars(s) ==
    IF s = <<>> THEN <<>> ELSE escape_debug(Head(s)) \o EscapedChars(Tail(s))

fmt_debug(s) == <<Quote>> \o EscapedChars(s) \o <<Quote>>

\* str::trim_matches(c)
RECURSIVE trim_start_matches(_, _)
trim_start_matches(s, c) ==
    IF s # <<>> /\ Head(s) = c THEN trim_start_matches(Tail(s), c) ELSE s

RECURSIVE trim_end_matches(_, _)
trim_end_matches(s, c) ==
    IF s # <<>> /\ s[Len(s)] = c
    THEN trim_end_matches(SubSeq(s, 1, Len(s) - 1), c)
    ELSE s

trim_matches(s, c) == trim_end_matches(trim_start_matches(s, c), c)

\* song.rs:134-136: the title of a file without a Title tag
title_fallback(path) ==
    trim_matches(fmt_debug(file_stem(path)), Quote)

\* the files extraction is tried on: two tracks of one album, two discs'
\* first tracks of another (same album, same track number), and a file
\* the engine reports an error for
Catalogue == {
    [tags |-> [NoTags EXCEPT !.album = Some(1), !.artist = Some(1),
                             !.track_number = Some(1), !.year = Some(1999)],
     path |-> <<"1", Dot, "m">>, playable |-> TRUE],
    [tags |-> [NoTags EXCEPT !.album = Some(1), !.artist = Some(1),
                             !.track_number = Some(2), !.year = Some(1999)],
     path |-> <<"2", Dot, "m">>, playable |-> TRUE],
    [tags |-> [NoTags EXCEPT !.album = Some(2), !.artist = Some(3),
                             !.album_artist = Some(1), !.track_number = Some(1)],
     path |-> <<"3", Dot, "m">>, playable |-> TRUE],
    [tags |-> [NoTags EXCEPT !.album = Some(2), !.artist = Some(2),
                             !.album_artist = Some(1), !.track_number = Some(1)],
     path |-> <<"4", Dot, "m">>, playable |-> TRUE],
    [tags |-> NoTags, path |-> <<"5", Dot, "m">>, playable |-> FALSE] }

\* Song::read_metadata (the duration plays no part in the model)
read_metadata(path, tags) ==
    LET album_title  == IF IsSome(tags.album) THEN Unwrap(tags.album)
                        ELSE UnknownAlbum
        artist       == IF IsSome(tags.artist) THEN Unwrap(tags.artist)
                        ELSE UnknownArtist
        album_artist == IF IsSome(tags.album_artist)
                        THEN Unwrap(tags.album_artist) ELSE artist
        title        == IF IsSome(tags.title) THEN Unwrap(tags.title)
                        ELSE title_fallback(path)
        track_number == IF IsSome(tags.track_number)
                        THEN Unwrap(tags.track_number) ELSE 0
        album_info   == IF IsSome(tags.year)
                        THEN <<album_artist, album_title, Unwrap(tags.year)>>
                        ELSE <<album_artist, album_title>>
    IN  [path |-> path, artist |-> artist, album_artist |-> album_artist,
         title |-> title, track_number |-> track_number,
         year |-> tags.year,
         album_title |-> album_title, album_info |-> album_info]

\* Song::from: None when the engine reports an error for the file before
\* both the duration and the tags are known
Song_from(file) ==
    IF file.playable THEN Some(read_metadata(file.path, file.tags)) ELSE None

-----------------------------------------------------------------------------
(* SpecSong: read_metadata on every file name up to MaxName characters    *)
(* with every combination of tags present and absent.                      *)

Alphabet == {"a", Dot, Quote, Backslash}

\* file names: "." and ".." name no file
SongNames ==
    UNION {[1 .. n -> Alphabet] : n \in 1 .. MaxName} \ {<<Dot>>, <<Dot, Dot>>}

\* tag lists: each tag either missing or present with one value
TagSets ==
    [album : {None, Some(1)}, artist : {None, Some(2)},
     album_artist : {None, Some(3)}, title : {None, Some(<<"T">>)},
     track_number : {None, Some(7)}, year : {None, Some(1999)}]

\* song.rs:43: song.read_metadata(&tags) on the file and tags of `pre`
CallReadMetadata ==
    /\ call = "new"
    /\ call' = "read_metadata"
    /\ ret' = Some(read_metadata(Unwrap(pre).path, Unwrap(pre).tags))
    /\ UNCHANGED <<pre, playlist, buildVars, pc, stderr, backendVars,
                   input_chan, output, track_info>>

InitSong ==
    /\ playlist = [store |-> <<>>, currently_playing |-> 0]
    /\ call = "new" /\ ret = None
    /\ pre \in {Some([tags |-> tags, path |-> path]) :
                    path \in SongNames, tags \in TagSets}
    /\ files = <<>> /\ task = <<>> /\ rx = <<>>
    /\ pc = "api"
    /\ stderr = <<>>
    /\ playbin = [state |-> "Null", uri |-> None, mute |-> FALSE]
    /\ next_uri = None /\ main_chan = <<>> /\ bus = <<>>
    /\ stream = "idle" /\ enq = None
    /\ input_chan = <<>>
    /\ NewOutput
    /\ NoExtraction

NextSong == CallReadMetadata

SpecSong == InitSong /\ [][NextSong]_vars

-----------------------------------------------------------------------------
(* playlist.rs: Playlist::from, lines 56-61 *)

\* String < String
RECURSIVE StrLess(_, _)
StrLess(a, b) ==
    IF a = <<>> THEN b # <<>>
    ELSE IF b = <<>> THEN FALSE
    ELSE IF a[1] # b[1] THEN a[1] < b[1]
    ELSE StrLess(Tail(a), Tail(b))

\* a key that leaves the argument index out
SortKeyNoIndex(e) == <<0, e.song.album_info, e.song.track_number>>

\* the key of sorted_by_key: (i, album_info, track_number)
SortKey(e) == <<e.i, e.song.album_info, e.song.track_number>>

\* (usize, String, u32) <= (usize, String, u32), tracks before albums
KeyLeqTrackFirst(k, l) ==
    \/ k[1] < l[1]
    \/ k[1] = l[1] /\ k[3] < l[3]
    \/ k[1] = l[1] /\ k[3] = l[3] /\ (StrLess(k[2], l[2]) \/ k[2] = l[2])

\* (usize, String, u32) <= (usize, String, u32)
KeyLeq(k, l) ==
    \/ k[1] < l[1]
    \/ k[1] = l[1] /\ StrLess(k[2], l[2])
    \/ k[1] = l[1] /\ k[2] = l[2] /\ k[3] <= l[3]

\* filter_map(|(i, song)| Some((i, song?)))
RECURSIVE FilterMap(_)
FilterMap(s) ==
    IF s = <<>> THEN <<>>
    ELSE LET rest == FilterMap(Tail(s))
         IN  IF IsSome(Head(s).song)
             THEN <<[i |-> Head(s).i, song |-> Unwrap(Head(s).song)]>> \o rest
             ELSE rest

\* e goes behind every element whose key is <= its own: the sort is stable
InsertByKey(sorted, e) ==
    LET n == Cardinality({j \in 1 .. Len(sorted) :
                             KeyLeq(SortKey(sorted[j]), SortKey(e))})
    IN  SubSeq(sorted, 1, n) \o <<e>> \o SubSeq(sorted, n + 1, Len(sorted))

\* a sort that leaves the entries as they arrived
UnsortedByKey(s) == s

\* a sort that keeps one entry per key, as a map from keys to songs would
RECURSIVE SortedByKeyUnique(_)
SortedByKeyUnique(s) ==
    IF s = <<>> THEN <<>>
    ELSE LET front == SortedByKeyUnique(SubSeq(s, 1, Len(s) - 1))
             e     == s[Len(s)]
         IN  IF \E j \in 1 .. Len(front) : SortKey(front[j]) = SortKey(e)
             THEN front
             ELSE InsertByKey(front, e)

\* sorted_by_key: a stable sort
RECURSIVE SortedByKey(_)
SortedByKey(s) ==
    IF s = <<>> THEN <<>>
    ELSE InsertByKey(SortedByKey(SubSeq(s, 1, Len(s) - 1)), s[Len(s)])

\* the store `from` collects out of what the channel delivered
CollectStore(received) ==
    LET sorted == SortedByKey(FilterMap(received))
    IN  [j \in 1 .. Len(sorted) |-> sorted[j].song]

-----------------------------------------------------------------------------
(* Initial values of the parts a specification does not use *)

Paths == 1 .. NPaths

\* a Song of which only the path matters
PathSong(path) == [path |-> path]

\* the stores Playlist::from can return to the loop: never empty
Stores ==
    UNION { [1 .. n -> {PathSong(x) : x \in Paths}] : n \in 1 .. MaxTracks }

NoPlaylistCalls == call = "new" /\ ret = None /\ pre = None
NoBuild         == files = <<>> /\ task = <<>> /\ rx = <<>>

\* Backend::new (backend.rs:39-93): a fresh playbin, nothing queued
NewBackend ==
    /\ playbin = [state |-> "Null", uri |-> None, mute |-> FALSE]
    /\ next_uri = None
    /\ main_chan = <<>>
    /\ bus = <<>>
    /\ stream = "idle"
    /\ enq = None

-----------------------------------------------------------------------------
(* SpecPlaylist: any sequence of current(), next(), prev() and peek() on a *)
(* playlist as `from` returns it.                                          *)

Called(name, r) ==
    /\ call' = name
    /\ ret' = r.ret
    /\ pre' = Some(playlist)
    /\ playlist' = r.playlist
    /\ UNCHANGED <<buildVars, pc, stderr, backendVars, input_chan,
                   output, track_info>>

CallCurrent == Called("current", Playlist_current(playlist))
CallNext    == Called("next", Playlist_next(playlist))
CallPrev    == Called("prev", Playlist_prev(playlist))
CallPeek    == Called("peek", Playlist_peek(playlist))

InitPlaylist ==
    /\ playlist \in {NewPlaylist(s) : s \in Stores}
    /\ NoPlaylistCalls
    /\ NoBuild
    /\ pc = "api"
    /\ stderr = <<>>
    /\ NewBackend
    /\ input_chan = <<>>
    /\ NewOutput
    /\ NoExtraction

NextPlaylist == CallCurrent \/ CallNext \/ CallPrev \/ CallPeek

SpecPlaylist == InitPlaylist /\ [][NextPlaylist]_vars

-----------------------------------------------------------------------------
(* backend.rs: the Backend.  An engine request (set_state, set_property,   *)
(* property) succeeds or fails as the engine decides: `fail` numbers the   *)
(* request of the method that fails, 0 when none does.                     *)

ReachedEndOfSong     == [type |-> "ReachedEndOfSong"]
ReachedEndOfPlaylist == [type |-> "ReachedEndOfPlaylist"]
RequestNextSong      == [type |-> "RequestNextSong"]

\* main_tx.send(msg)
Send(msg) == main_chan' = Append(main_chan, msg)

\* what the streaming thread does once set_state(s) has succeeded: Ready
\* and Null end the stream, Playing starts one unless one is under way
StreamAfter(s) ==
    CASE s \in {"Ready", "Null"}             -> "idle"
      [] s = "Playing" /\ stream = "idle"    -> "streaming"
      [] OTHER                               -> stream

\* a play that forgets the pending next-URI
Backend_play_clearing(song, fail) ==
    /\ IsSome(song)
    /\ fail \in 0 .. 3
    /\ LET uri == Some(to_uri(Unwrap(song).path))
       IN  CASE fail = 1 -> UNCHANGED <<playbin, stream>>
             [] fail = 2 -> /\ playbin' = [playbin EXCEPT !.state = "Ready"]
                            /\ stream' = StreamAfter("Ready")
             [] fail = 3 -> /\ playbin' = [playbin EXCEPT !.state = "Ready",
                                                          !.uri = uri]
                            /\ stream' = StreamAfter("Ready")
             [] OTHER    -> /\ playbin' = [playbin EXCEPT !.state = "Playing",
                                                          !.uri = uri]
                            /\ stream' = "streaming"
    /\ next_uri' = None
    /\ UNCHANGED <<main_chan, bus, enq>>

\* Backend::play, lines 112-114: the three engine requests.  The send of
\* line 115 is the main thread's next step (MainSend).
Backend_play(song, fail) ==
    /\ IsSome(song)
    /\ fail \in 0 .. 3
    /\ LET uri == Some(to_uri(Unwrap(song).path))
       IN  CASE fail = 1 -> UNCHANGED <<playbin, stream>>
             [] fail = 2 -> /\ playbin' = [playbin EXCEPT !.state = "Ready"]
                            /\ stream' = StreamAfter("Ready")
             [] fail = 3 -> /\ playbin' = [playbin EXCEPT !.state = "Ready",
                                                          !.uri = uri]
                            /\ stream' = StreamAfter("Ready")
             [] OTHER    -> /\ playbin' = [playbin EXCEPT !.state = "Playing",
                                                          !.uri = uri]
                            /\ stream' = "streaming"
    /\ UNCHANGED <<next_uri, main_chan, bus, enq>>

\* Backend::stop
Backend_stop(fail) ==
    /\ fail \in 0 .. 1
    /\ IF fail = 1
       THEN UNCHANGED <<playbin, stream, main_chan>>
       ELSE /\ playbin' = [playbin EXCEPT !.state = "Null"]
            /\ stream' = StreamAfter("Null")
            /\ Send(ReachedEndOfPlaylist)
    /\ UNCHANGED <<next_uri, bus, enq>>

\* a toggle that only ever mutes
toggle_mute_muting(muted) == TRUE

\* backend.rs:135: the value written to "mute", `!muted`
toggle_mute_value(muted) == ~muted

\* Backend::toggle_mute: the read of "mute" (1) or its write (2) may fail
Backend_toggle_mute(fail) ==
    /\ fail \in 0 .. 2
    /\ IF fail = 0
       THEN playbin' = [playbin EXCEPT !.mute = toggle_mute_value(playbin.mute)]
       ELSE UNCHANGED playbin
    /\ UNCHANGED <<next_uri, main_chan, bus, stream, enq>>

\* a toggle that only ever pauses
PauseTarget_pausing(state) == IF state = "Playing" THEN "Paused" ELSE state

\* backend.rs:141-144: the state toggle_pause asks for, by current_state()
PauseTarget(state) == IF state = "Playing" THEN "Paused" ELSE "Playing"

\* a toggle_pause that also asks for the next song
Backend_toggle_pause_requesting(fail) ==
    /\ fail \in 0 .. 1
    /\ LET target == PauseTarget(playbin.state)
       IN  IF fail = 1
           THEN UNCHANGED <<playbin, stream>>
           ELSE /\ playbin' = [playbin EXCEPT !.state = target]
                /\ stream' = StreamAfter(target)
    /\ Send(RequestNextSong)
    /\ UNCHANGED <<next_uri, bus, enq>>

\* Backend::toggle_pause
Backend_toggle_pause(fail) ==
    /\ fail \in 0 .. 1
    /\ LET target == PauseTarget(playbin.state)
       IN  IF fail = 1
           THEN UNCHANGED <<playbin, stream>>
           ELSE /\ playbin' = [playbin EXCEPT !.state = target]
                /\ stream' = StreamAfter(target)
    /\ UNCHANGED <<next_uri, main_chan, bus, enq>>

\* an enqueue that keeps the old URI when it is given no song
Backend_enqueue_some(song) ==
    /\ next_uri' = IF IsSome(song) THEN Some(to_uri(Unwrap(song).path))
                   ELSE next_uri
    /\ enq' = song

\* Backend::enqueue: song.map(|s| s.path.to_uri()) into next_uri
Backend_enqueue(song) ==
    /\ next_uri' = IF IsSome(song) THEN Some(to_uri(Unwrap(song).path)) ELSE None
    /\ enq' = song

\* a dequeue that asks for the next song whether or not one was pending
Backend_dequeue_always_requests ==
    /\ IF IsSome(next_uri)
       THEN /\ playbin' = [playbin EXCEPT !.uri = next_uri]
            /\ main_chan' = main_chan \o <<ReachedEndOfSong, RequestNextSong>>
            /\ UNCHANGED stream
       ELSE /\ main_chan' = main_chan \o <<RequestNextSong>>
            /\ stream' = "draining"
            /\ UNCHANGED playbin
    /\ UNCHANGED <<next_uri, bus, enq>>

\* a dequeue that announces the end of the playlist itself when nothing
\* is pending
Backend_dequeue_synthesizing ==
    /\ IF IsSome(next_uri)
       THEN /\ playbin' = [playbin EXCEPT !.uri = next_uri]
            /\ main_chan' = main_chan \o <<ReachedEndOfSong, RequestNextSong>>
            /\ UNCHANGED stream
       ELSE /\ main_chan' = main_chan \o <<ReachedEndOfPlaylist>>
            /\ stream' = "draining"
            /\ UNCHANGED playbin
    /\ UNCHANGED <<next_uri, bus, enq>>

\* a dequeue that takes the URI out of the slot as it hands it over
Backend_dequeue_taking ==
    /\ IF IsSome(next_uri)
       THEN /\ playbin' = [playbin EXCEPT !.uri = next_uri]
            /\ main_chan' = main_chan \o <<ReachedEndOfSong, RequestNextSong>>
            /\ next_uri' = None
            /\ UNCHANGED stream
       ELSE /\ stream' = "draining"
            /\ UNCHANGED <<playbin, main_chan, next_uri>>
    /\ UNCHANGED <<bus, enq>>

\* Backend::dequeue, in the engine's about-to-finish callback.  With a URI
\* handed over the engine goes on streaming; with none the stream drains.
Backend_dequeue ==
    /\ IF IsSome(next_uri)
       THEN /\ playbin' = [playbin EXCEPT !.uri = next_uri]
            /\ main_chan' = main_chan \o <<ReachedEndOfSong, RequestNextSong>>
            /\ UNCHANGED stream
       ELSE /\ stream' = "draining"
            /\ UNCHANGED <<playbin, main_chan>>
    /\ UNCHANGED <<next_uri, bus, enq>>

\* the 5 of ClockTime::from_seconds(5) (backend.rs:191, backend.rs:200).
\* Positions are counted in seconds; a ClockTime is a u64 of nanoseconds,
\* which no position of a stream plus five seconds comes near to filling.
SeekOffset == 5

\* what query_position::<ClockTime>() may answer: None, or a position
PositionReports == {None} \cup {Some(p) : p \in 0 .. MaxPos}

\* a saturating_sub that starts to saturate one too late
saturating_sub_late(a, b) == IF a + 1 >= b THEN a - b ELSE 0

\* ClockTime::saturating_sub
saturating_sub(a, b) == IF a >= b THEN a - b ELSE 0

\* Backend::seek_to: seek_simple(FLUSH, pos).ok(); the engine's verdict is
\* dropped.  The value is the request made of the engine and its verdict.
seek_to(pos, accepted) ==
    [request |-> Some(pos), result |-> IF accepted THEN "Ok" ELSE "Err"]

\* Backend::seek_forward with `q` the answer of query_position: the seek
\* requested of the engine, if any, and the Result returned
Backend_seek_forward(q, accepted) ==
    IF IsSome(q)
    THEN [ret |-> "Ok",
          request |-> seek_to(Unwrap(q) + SeekOffset, accepted).request]
    ELSE [ret |-> "Ok", request |-> None]

\* Backend::seek_backward
Backend_seek_backward(q, accepted) ==
    IF IsSome(q)
    THEN [ret |-> "Ok",
          request |-> seek_to(saturating_sub(Unwrap(q), SeekOffset),
                              accepted).request]
    ELSE [ret |-> "Ok", request |-> None]

\* what either seek leaves of the Backend: the position is the engine's
\* own, and nothing else is touched
Backend_seek == UNCHANGED backendVars

-----------------------------------------------------------------------------
(* SpecSeek: seek_forward() and seek_backward() called with every answer   *)
(* the engine may give to the position query, the seek accepted or not.    *)

CalledSeek(name, q, accepted, r) ==
    /\ call' = name
    /\ pre' = Some([accepted |-> accepted, position |-> q])
    /\ ret' = r
    /\ UNCHANGED <<playlist, buildVars, pc, stderr, backendVars, input_chan,
                   output, track_info>>

CallSeekForward ==
    \E q \in PositionReports, accepted \in BOOLEAN :
        CalledSeek("seek_forward", q, accepted,
                   Backend_seek_forward(q, accepted))

CallSeekBackward ==
    \E q \in PositionReports, accepted \in BOOLEAN :
        CalledSeek("seek_backward", q, accepted,
                   Backend_seek_backward(q, accepted))

InitSeek ==
    /\ playlist = NewPlaylist(<<PathSong(1)>>)
    /\ NoPlaylistCalls
    /\ NoBuild
    /\ pc = "api"
    /\ stderr = <<>>
    /\ NewBackend
    /\ input_chan = <<>>
    /\ NewOutput
    /\ NoExtraction

NextSeek == CallSeekForward \/ CallSeekBackward

SpecSeek == InitSeek /\ [][NextSeek]_vars

-----------------------------------------------------------------------------
(* main.rs: print_usage_and_exit, and the start of playback *)

UsageLines == <<"No playable files provided", "Usage: soi FILES...">>

\* main.rs:74  backend.play(playlist.lockk().current())?
StartPlayback ==
    /\ pc = "built"
    /\ LET song == Playlist_current(playlist).ret
       IN  IF IsSome(song)
           THEN \E fail \in 0 .. 3 :
                   /\ Backend_play(song, fail)
                   /\ pc' = IF fail = 0 THEN "sending" ELSE "main_err"
           ELSE /\ pc' = "loop"
                /\ UNCHANGED backendVars
    /\ UNCHANGED <<playlist, playlistVars, buildVars, stderr, input_chan,
                   output, track_info>>

\* backend.rs:115  main_tx.send(RequestNextSong), the last step of play()
MainSend ==
    /\ pc = "sending"
    /\ Send(RequestNextSong)
    /\ pc' = "loop"
    /\ UNCHANGED <<playlist, playlistVars, buildVars, stderr, input_chan,
                   playbin, next_uri, bus, stream, enq, output, track_info>>

-----------------------------------------------------------------------------
(* SpecBuild: Playlist::from (playlist.rs:28-72) and main() up to the main *)
(* loop.  `files` is what enumerate(files)...flatten() yields: the pairs   *)
(* (i, path) with i the index of the command line argument the file came   *)
(* from, in the order the arguments and read_dir give them.                *)

\* Number of worker threads (playlist.rs:12)
N_WORKERS == 8

Tasks == 1 .. Len(files)
TasksIn(status) == {t \in Tasks : task[t] = status}

\* playlist.rs:35-46: the next pair is pushed to the pool
Push ==
    /\ pc = "from_push"
    /\ TasksIn("new") # {}
    /\ LET t == CHOOSE t \in TasksIn("new") : \A u \in TasksIn("new") : t <= u
       IN  task' = [task EXCEPT ![t] = "queued"]
    /\ UNCHANGED <<playlist, playlistVars, files, rx, pc, stderr,
                   backendVars, input_chan, output, track_info>>

\* playlist.rs:49-50: every pair is pushed; drop(tx), then drop(pool)
\* begins to wait for the workers
PushDone ==
    /\ pc = "from_push"
    /\ TasksIn("new") = {}
    /\ pc' = "from_drop_pool"
    /\ UNCHANGED <<playlist, playlistVars, buildVars, stderr, backendVars,
                   input_chan, output, track_info>>

\* a worker pool that starts a thread for every task pushed
WorkerStart_unbounded(t) ==
    /\ task[t] = "queued"
    /\ \A u \in TasksIn("queued") : t <= u
    /\ task' = [task EXCEPT ![t] = "running"]
    /\ UNCHANGED <<playlist, playlistVars, files, rx, pc, stderr,
                   backendVars, input_chan, output, track_info>>

\* a free worker thread takes the oldest queued task
WorkerStart(t) ==
    /\ task[t] = "queued"
    /\ \A u \in TasksIn("queued") : t <= u
    /\ Cardinality(TasksIn("running")) < N_WORKERS
    /\ task' = [task EXCEPT ![t] = "running"]
    /\ UNCHANGED <<playlist, playlistVars, files, rx, pc, stderr,
                   backendVars, input_chan, output, track_info>>

\* playlist.rs:40-44: the task sends (i, Song::from(path)) and ends
WorkerFinish(t) ==
    /\ task[t] = "running"
    /\ rx' = Append(rx, [i |-> files[t].i, song |-> Song_from(files[t].file)])
    /\ task' = [task EXCEPT ![t] = "done"]
    /\ UNCHANGED <<playlist, playlistVars, files, pc, stderr, backendVars,
                   input_chan, output, track_info>>

\* a drop(pool) that does not wait for the workers
DropPool_not_waiting ==
    /\ pc = "from_drop_pool"
    /\ pc' = "from_collect"
    /\ UNCHANGED <<playlist, playlistVars, buildVars, stderr, backendVars,
                   input_chan, output, track_info>>

\* playlist.rs:50: drop(pool) returns when every task has ended
DropPool ==
    /\ pc = "from_drop_pool"
    /\ TasksIn("done") = Tasks
    /\ pc' = "from_collect"
    /\ UNCHANGED <<playlist, playlistVars, buildVars, stderr, backendVars,
                   input_chan, output, track_info>>

\* a `from` that returns whatever it collected
Collect_unchecked ==
    /\ pc = "from_collect"
    /\ playlist' = NewPlaylist(CollectStore(rx))
    /\ pc' = "built"
    /\ rx' = <<>>
    /\ UNCHANGED <<playlistVars, files, task, stderr, backendVars, input_chan,
                   output, track_info>>

\* playlist.rs:56-72: rx.iter() takes everything out of the channel; the
\* results are filtered and sorted, and an empty store is the usage exit
Collect ==
    /\ pc = "from_collect"
    /\ LET store == CollectStore(rx)
       IN  IF store = <<>>
           THEN /\ stderr' = stderr \o UsageLines
                /\ pc' = "exited"
                /\ UNCHANGED playlist
           ELSE /\ playlist' = NewPlaylist(store)
                /\ pc' = "built"
                /\ UNCHANGED stderr
    /\ rx' = <<>>
    /\ UNCHANGED <<playlistVars, files, task, backendVars, input_chan,
                   output, track_info>>

\* the argument indices are those of enumerate(): they never decrease
\* along the pairs
FileLists ==
    UNION { { fs \in [1 .. n -> [i : 0 .. MaxArgs - 1, file : Catalogue]] :
                \A j \in 1 .. n - 1 : fs[j].i <= fs[j + 1].i }
            : n \in 0 .. MaxFiles }

InitBuild ==
    /\ files \in FileLists
    /\ task = [t \in 1 .. Len(files) |-> "new"]
    /\ rx = <<>>
    /\ playlist = NewPlaylist(<<>>)
    /\ NoPlaylistCalls
    /\ pc = "from_push"
    /\ stderr = <<>>
    /\ NewBackend
    /\ input_chan = <<>>
    /\ NewOutput
    /\ NoExtraction

NextBuild ==
    \/ Push
    \/ PushDone
    \/ \E t \in Tasks : WorkerStart(t)
    \/ \E t \in Tasks : WorkerFinish(t)
    \/ DropPool
    \/ Collect
    \/ StartPlayback
    \/ MainSend

SpecBuild == InitBuild /\ [][NextBuild]_vars

-----------------------------------------------------------------------------
(* SpecPool: Playlist::from on more files than the pool has workers: one   *)
(* argument that holds up to MaxPoolFiles files, each of them playable.    *)

PoolFile == CHOOSE f \in Catalogue : f.path = <<"1", Dot, "m">>

PoolFileLists ==
    {[j \in 1 .. n |-> [i |-> 0, file |-> PoolFile]] : n \in 0 .. MaxPoolFiles}

InitPool ==
    /\ files \in PoolFileLists
    /\ task = [t \in 1 .. Len(files) |-> "new"]
    /\ rx = <<>>
    /\ playlist = NewPlaylist(<<>>)
    /\ NoPlaylistCalls
    /\ pc = "from_push"
    /\ stderr = <<>>
    /\ NewBackend
    /\ input_chan = <<>>
    /\ NewOutput
    /\ NoExtraction

SpecPool == InitPool /\ [][NextBuild]_vars

-----------------------------------------------------------------------------
(* Spec: the main loop (main.rs:44-102).  The main thread dispatches, one  *)
(* at a time and in any order among the sources that are ready, the input  *)
(* channel, the Backend channel and the bus watch; the input thread and    *)
(* the engine's streaming thread run beside it.                            *)

\* input.rs:7-15
UserInputs == {"Mute", "Pause", "Stop", "Next", "Prev", "SeekBackward",
               "SeekForward"}

Alive == pc \in {"built", "sending", "loop"}

loopFrame == <<playlistVars, buildVars, stderr, output, track_info>>

\* main.rs:46-53: the input thread forwards a key press
KeyPress(k) ==
    /\ Alive
    /\ Len(input_chan) < MaxInput
    /\ input_chan' = Append(input_chan, k)
    /\ UNCHANGED <<playlist, pc, backendVars, loopFrame>>

\* the main thread takes `k` from the input channel (main.rs:56-59)
TakeInput(k) ==
    /\ pc = "loop"
    /\ input_chan # <<>>
    /\ Head(input_chan) = k
    /\ Len(main_chan) + 1 <= MaxChan
    /\ input_chan' = Tail(input_chan)

\* main.rs:68  .expect("Error while handling user input"): an Err panics
AfterInput(fail, ok) == pc' = IF fail = 0 THEN ok ELSE "panicked"

\* the engine requests one method makes, by number; 0 is "none fails"
Requests == 0 .. 3

\* main.rs:61, the request `fail` of toggle_mute failing
MuteWith(fail) ==
    /\ TakeInput("Mute")
    /\ Backend_toggle_mute(fail)
    /\ AfterInput(fail, "loop")
    /\ UNCHANGED <<playlist, loopFrame>>

\* main.rs:62
PauseWith(fail) ==
    /\ TakeInput("Pause")
    /\ Backend_toggle_pause(fail)
    /\ AfterInput(fail, "loop")
    /\ UNCHANGED <<playlist, loopFrame>>

\* main.rs:63
StopWith(fail) ==
    /\ TakeInput("Stop")
    /\ Backend_stop(fail)
    /\ AfterInput(fail, "loop")
    /\ UNCHANGED <<playlist, loopFrame>>

\* backend.play(song) of main.rs:64-65 with the cursor already moved;
\* play(None) makes no request
PlayMoved(moved, fail) ==
    /\ playlist' = moved.playlist
    /\ IF IsSome(moved.ret)
       THEN Backend_play(moved.ret, fail) /\ AfterInput(fail, "sending")
       ELSE fail = 0 /\ pc' = "loop" /\ UNCHANGED backendVars

\* main.rs:64
NextWith(fail) ==
    /\ TakeInput("Next")
    /\ PlayMoved(Playlist_next(playlist), fail)
    /\ UNCHANGED loopFrame

\* main.rs:65
PrevWith(fail) ==
    /\ TakeInput("Prev")
    /\ PlayMoved(Playlist_prev(playlist), fail)
    /\ UNCHANGED loopFrame

OnMute  == \E fail \in Requests : MuteWith(fail)
OnPause == \E fail \in Requests : PauseWith(fail)
OnStop  == \E fail \in Requests : StopWith(fail)
OnNext  == \E fail \in Requests : NextWith(fail)
OnPrev  == \E fail \in Requests : PrevWith(fail)

\* the .expect of main.rs:68 applied to the Result `r` of a command
AfterResult(r) == AfterInput(IF r = "Ok" THEN 0 ELSE 1, "loop")

\* the answers to the position query tried in the loop: no position, the
\* start of the track, and a position a backward seek does not clamp
LoopPositionReports == {None, Some(0), Some(SeekOffset)}

\* main.rs:66-67
OnSeek ==
    /\ \E q \in LoopPositionReports, accepted \in BOOLEAN :
          \/ /\ TakeInput("SeekBackward")
             /\ AfterResult(Backend_seek_backward(q, accepted).ret)
          \/ /\ TakeInput("SeekForward")
             /\ AfterResult(Backend_seek_forward(q, accepted).ret)
    /\ Backend_seek
    /\ UNCHANGED <<playlist, loopFrame>>

\* the main thread takes `msg` from the Backend channel (main.rs:77-80)
TakeMessage(msg) ==
    /\ pc = "loop"
    /\ main_chan # <<>>
    /\ Head(main_chan) = msg

\* main.rs:81-85
OnReachedEndOfSong ==
    /\ TakeMessage(ReachedEndOfSong)
    /\ playlist' = Playlist_next(playlist).playlist
    /\ main_chan' = Tail(main_chan)
    /\ UNCHANGED <<pc, playbin, next_uri, bus, stream, enq, input_chan,
                   loopFrame>>

\* main.rs:86-89: output.cleanup(), mainloop.quit()
OnReachedEndOfPlaylist ==
    /\ TakeMessage(ReachedEndOfPlaylist)
    /\ main_chan' = Tail(main_chan)
    /\ pc' = "quit"
    /\ UNCHANGED <<playlist, playbin, next_uri, bus, stream, enq, input_chan,
                   loopFrame>>

\* main.rs:90-92
OnRequestNextSong ==
    /\ TakeMessage(RequestNextSong)
    /\ main_chan' = Tail(main_chan)
    /\ Backend_enqueue(Playlist_peek(playlist).ret)
    /\ UNCHANGED <<playlist, pc, playbin, bus, stream, input_chan, loopFrame>>

\* backend.rs:70-80: the engine is about to finish the stream and calls
\* dequeue() on its streaming thread
AboutToFinish ==
    /\ Alive
    /\ playbin.state = "Playing"
    /\ stream = "streaming"
    /\ IsSome(next_uri) => Len(main_chan) + 2 <= MaxChan
    /\ Backend_dequeue
    /\ UNCHANGED <<playlist, pc, input_chan, loopFrame>>

\* nothing was handed over: the stream ends and the engine posts Eos
EndOfStream ==
    /\ Alive
    /\ playbin.state = "Playing"
    /\ stream = "draining"
    /\ Len(bus) < MaxBus
    /\ bus' = Append(bus, "Eos")
    /\ stream' = "eos"
    /\ UNCHANGED <<playlist, pc, playbin, next_uri, main_chan, enq,
                   input_chan, loopFrame>>

\* backend.rs:51-61: the bus watch, on the main thread
BusWatch ==
    /\ pc = "loop"
    /\ bus # <<>>
    /\ bus' = Tail(bus)
    /\ IF Head(bus) = "Eos" THEN Send(ReachedEndOfPlaylist)
                            ELSE UNCHANGED main_chan
    /\ UNCHANGED <<playlist, pc, playbin, next_uri, stream, enq, input_chan,
                   loopFrame>>

\* the playlists the loop is run on: one to MaxTracks files, each its own
LoopStores == {[j \in 1 .. n |-> PathSong(j)] : n \in 1 .. MaxTracks}

\* main() after Playlist::from has returned (main.rs:29-72)
Init ==
    /\ playlist \in {NewPlaylist(s) : s \in LoopStores}
    /\ NoPlaylistCalls
    /\ NoBuild
    /\ pc = "built"
    /\ stderr = <<>>
    /\ NewBackend
    /\ input_chan = <<>>
    /\ NewOutput
    /\ NoExtraction

Next ==
    \/ StartPlayback
    \/ MainSend
    \/ \E k \in UserInputs : KeyPress(k)
    \/ OnMute
    \/ OnPause
    \/ OnStop
    \/ OnNext
    \/ OnPrev
    \/ OnSeek
    \/ OnReachedEndOfSong
    \/ OnReachedEndOfPlaylist
    \/ OnRequestNextSong
    \/ AboutToFinish
    \/ EndOfStream
    \/ BusWatch

Spec == Init /\ [][Next]_vars

-----------------------------------------------------------------------------
(* Claims about the cursor API *)

Cursor == playlist.currently_playing
Length == Len(playlist.store)

\* C1: on a non-empty playlist the cursor stays in [0, len); next() on the
\* last track and prev() on the first return nothing and leave the cursor
\* where it is; otherwise they move it by exactly +1 / -1 and return the
\* track at the new cursor.
C1_CursorStaysInRange ==
    /\ Cursor \in 0 .. Length - 1
    /\ call = "next" =>
         IF Unwrap(pre).currently_playing = Length - 1
         THEN ret = None /\ playlist = Unwrap(pre)
         ELSE /\ Cursor = Unwrap(pre).currently_playing + 1
              /\ playlist.store = Unwrap(pre).store
              /\ ret = Some(playlist.store[Cursor + 1])
    /\ call = "prev" =>
         IF Unwrap(pre).currently_playing = 0
         THEN ret = None /\ playlist = Unwrap(pre)
         ELSE /\ Cursor = Unwrap(pre).currently_playing - 1
              /\ playlist.store = Unwrap(pre).store
              /\ ret = Some(playlist.store[Cursor + 1])

\* next() was called on the last of several tracks
C1_Witness ==
    /\ call = "next"
    /\ Length >= 2
    /\ Unwrap(pre).currently_playing = Length - 1
    /\ ret = None

\* C2: peek() changes neither the cursor nor the tracks; it returns the
\* track at cursor + 1, or nothing on the last track, so current() is the
\* same before and after it.
C2_PeekIsPure ==
    call = "peek" =>
        /\ playlist = Unwrap(pre)
        /\ ret = IF Cursor + 1 < Length
                 THEN Some(playlist.store[Cursor + 2])
                 ELSE None
        /\ Playlist_current(playlist).ret = Playlist_current(Unwrap(pre)).ret

\* peek() returned a track from the middle of the playlist
C2_Witness ==
    /\ call = "peek"
    /\ Cursor >= 1
    /\ IsSome(ret)

-----------------------------------------------------------------------------
(* Claims about Playlist::from *)

Built == pc \in {"built", "sending", "loop"}
Store == playlist.store

\* the tasks whose extraction yields a Song
Succeeded == {t \in Tasks : IsSome(Song_from(files[t].file))}
SongOf(t) == Unwrap(Song_from(files[t].file))

\* what the channel holds when the tasks end in the order they were pushed
RxInPushOrder ==
    [t \in Tasks |-> [i |-> files[t].i, song |-> Song_from(files[t].file)]]
StoreInPushOrder == CollectStore(RxInPushOrder)

\* two tracks that came from one argument with one album identity and one
\* track number
Tied(s1, s2) ==
    \E t, u \in Succeeded :
        /\ SongOf(t) = s1
        /\ SongOf(u) = s2
        /\ files[t].i = files[u].i
        /\ s1.album_info = s2.album_info
        /\ s1.track_number = s2.track_number

NoTies ==
    \A t, u \in Succeeded :
        t # u => SortKey([i |-> files[t].i, song |-> SongOf(t)])
                   # SortKey([i |-> files[u].i, song |-> SongOf(u)])

\* the ways to trace every track of the store back to the task it came
\* from, no task twice (the same path may be given more than once)
Origins ==
    {a \in [1 .. Len(Store) -> Succeeded] :
        /\ \A j, k \in 1 .. Len(Store) : j # k => a[j] # a[k]
        /\ \A j \in 1 .. Len(Store) : SongOf(a[j]) = Store[j]}

\* C3 as stated: the track sequence is the same for every completion order
\* of the workers, namely the one built when they complete in push order.
C3_SameForEveryCompletionOrder ==
    Built => Store = StoreInPushOrder

\* C3, amended: for every completion order the store has, at every
\* position, the track the push-order build has there or one tied with it
\* in (argument index, album identity, track number); with no such ties
\* the store is the same for every completion order.
C3_SameUpToTies ==
    Built =>
        /\ Len(Store) = Len(StoreInPushOrder)
        /\ \A j \in 1 .. Len(Store) :
              Store[j] = StoreInPushOrder[j] \/ Tied(Store[j], StoreInPushOrder[j])
        /\ NoTies => Store = StoreInPushOrder

\* three tracks, two of them tied and not in the order they were pushed in
C3_Witness ==
    /\ Built
    /\ Len(Store) = 3
    /\ Store # StoreInPushOrder

\* C4: every track that came from argument i is before every track that
\* came from argument j when i < j.
C4_ArgumentOrderKept ==
    Built =>
        \E a \in Origins :
            \A j, k \in 1 .. Len(Store) :
                j < k => files[a[j]].i <= files[a[k]].i

\* the second argument's album sorts before the first's
C4_Witness ==
    /\ Built
    /\ Len(Store) = 2
    /\ Len(files) = 2
    /\ files[1].i < files[2].i
    /\ StrLess(SongOf(2).album_info, SongOf(1).album_info)

\* C5: within one argument the tracks of one album identity are contiguous
\* and in ascending track-number order.
C5_AlbumsContiguousAndOrdered ==
    Built =>
        \E a \in Origins :
            /\ \A j, k \in 1 .. Len(Store) :
                  ( /\ j < k
                    /\ files[a[j]].i = files[a[k]].i
                    /\ Store[j].album_info = Store[k].album_info )
                  => /\ Store[j].track_number <= Store[k].track_number
                     /\ \A m \in j .. k :
                           /\ files[a[m]].i = files[a[j]].i
                           /\ Store[m].album_info = Store[j].album_info
            /\ \A j, k \in 1 .. Len(Store) :
                  j < k => files[a[j]].i <= files[a[k]].i

\* one argument holding two albums, pushed with the other album's track
\* between the two tracks of the first and its second track first
C5_Witness ==
    /\ Built
    /\ Len(Store) = 3
    /\ files[1].i = files[3].i
    /\ SongOf(1).album_info = SongOf(3).album_info
    /\ SongOf(1).track_number > SongOf(3).track_number
    /\ SongOf(2).album_info # SongOf(1).album_info

\* every order in which the tasks of T can complete
ArrivalOrders(T) ==
    {p \in [1 .. Cardinality(T) -> T] :
        \A j, k \in 1 .. Cardinality(T) : j # k => p[j] # p[k]}

\* the stores `from` can build when only the tasks of T are given to it
StoresOf(T) ==
    {CollectStore([j \in 1 .. Cardinality(T) |->
                      [i |-> files[p[j]].i, song |-> Song_from(files[p[j]].file)]])
        : p \in ArrivalOrders(T)}

-----------------------------------------------------------------------------
(* Claims about the Backend and the main loop *)

CurrentSong == Unwrap(Playlist_current(playlist).ret)

\* C8: enqueue(track) followed by dequeue() points the engine at track's
\* URI and sends exactly one ReachedEndOfSong and one RequestNextSong;
\* dequeue() with nothing enqueued, or after enqueue(None), leaves the
\* engine's URI alone and sends nothing.
C8_EnqueueDequeueRoundTrip ==
    [][AboutToFinish =>
         IF IsSome(enq)
         THEN /\ playbin'.uri = Some(to_uri(Unwrap(enq).path))
              /\ main_chan' = main_chan \o <<ReachedEndOfSong, RequestNextSong>>
         ELSE /\ playbin'.uri = playbin.uri
              /\ main_chan' = main_chan]_vars

\* dequeue() has handed the engine the URI of the track enqueued last,
\* which is not the one the cursor is on, and its two messages wait
C8_Witness ==
    /\ IsSome(enq)
    /\ playbin.uri = Some(to_uri(Unwrap(enq).path))
    /\ Unwrap(enq) # CurrentSong
    /\ main_chan = <<ReachedEndOfSong, RequestNextSong>>

\* C9: whenever the loop runs and both channels are empty, the URI the
\* engine was last pointed at is the URI of the track at the cursor.
C9_CursorIdentifiesEngineTrack ==
    (pc = "loop" /\ input_chan = <<>> /\ main_chan = <<>>)
        => playbin.uri = Some(to_uri(CurrentSong.path))

\* a step in which an engine request of toggle_mute, toggle_pause or of
\* the play of Next or Prev fails
InputRequestFails ==
    \E fail \in Requests \ {0} :
        MuteWith(fail) \/ PauseWith(fail) \/ NextWith(fail) \/ PrevWith(fail)

\* C10: a failed engine request made while handling Mute, Pause, Next or
\* Prev is recoverable: the process does not crash and the loop goes on.
C10_InputFailureIsRecoverable ==
    [][InputRequestFails => pc' = "loop"]_vars

\* the main loop is dispatching handlers (mainloop.run() has not ended)
Running == pc \in {"loop", "sending"}

\* C11: the loop stops only by handling ReachedEndOfPlaylist, no input,
\* engine event or failure ends it, and once it has stopped neither the
\* cursor nor the Backend changes again.
C11_StopsOnlyOnEndOfPlaylist ==
    [][/\ (Running /\ ~Running') => OnReachedEndOfPlaylist
       /\ (pc \in {"quit", "panicked"}) => UNCHANGED <<playlist, backendVars>>]_vars

\* how many times `msg` waits in `chan`
NumOf(msg, chan) == Cardinality({j \in 1 .. Len(chan) : chan[j] = msg})

\* C12: dequeue() never sends ReachedEndOfPlaylist, and with no next-URI
\* pending (the cursor on the last track) it changes neither the engine
\* nor the channel; a ReachedEndOfPlaylist enters the channel only from
\* the bus watch on the engine's Eos or from a successful stop().
C12_DequeueNeverEndsPlaylist ==
    [][/\ AboutToFinish =>
            /\ NumOf(ReachedEndOfPlaylist, main_chan')
                   = NumOf(ReachedEndOfPlaylist, main_chan)
            /\ next_uri = None => (playbin' = playbin /\ main_chan' = main_chan)
       /\ NumOf(ReachedEndOfPlaylist, main_chan')
              > NumOf(ReachedEndOfPlaylist, main_chan)
            => \/ BusWatch /\ Head(bus) = "Eos"
               \/ StopWith(0)]_vars

\* the last of several tracks played out with nothing pending: dequeue()
\* left the engine alone, the stream ended, and the bus watch has sent the
\* ReachedEndOfPlaylist that now waits
C12_Witness ==
    /\ Length > 1
    /\ Cursor = Length - 1
    /\ next_uri = None
    /\ stream = "eos"
    /\ playbin.state = "Playing"
    /\ playbin.uri = Some(to_uri(CurrentSong.path))
    /\ main_chan = <<ReachedEndOfPlaylist>>
    /\ pc = "loop"

-----------------------------------------------------------------------------
(* SpecFair: Spec with the scheduling of the glib main loop: of the        *)
(* sources attached to the main context, each that is ready again and      *)
(* again is dispatched in the end.  A handler in the middle of play()      *)
(* (pc = "sending") holds the others up only until its send is made.       *)

\* the handler of the input channel (main.rs:56-71)
InputSource == OnMute \/ OnPause \/ OnStop \/ OnNext \/ OnPrev \/ OnSeek

\* the handler of the Backend channel (main.rs:77-100)
BackendSource ==
    OnReachedEndOfSong \/ OnReachedEndOfPlaylist \/ OnRequestNextSong

SpecFair ==
    /\ Init /\ [][Next]_vars
    /\ WF_vars(StartPlayback) /\ WF_vars(MainSend)
    /\ SF_vars(InputSource) /\ SF_vars(BackendSource) /\ SF_vars(BusWatch)

-----------------------------------------------------------------------------
(* SpecAuto: the loop left to itself.  No key is pressed and no engine     *)
(* request fails; the main thread and the streaming thread each go on      *)
(* taking steps while they have one to take.                               *)

\* main.rs:74 with every request of play() succeeding
StartPlaybackOk == StartPlayback /\ pc' = "sending"

\* the steps of the main thread
MainThread ==
    \/ StartPlaybackOk
    \/ MainSend
    \/ OnReachedEndOfSong
    \/ OnReachedEndOfPlaylist
    \/ OnRequestNextSong
    \/ BusWatch

\* the steps of the engine's streaming thread
StreamingThread == AboutToFinish \/ EndOfStream

NextAuto == MainThread \/ StreamingThread

\* playlists of one to MaxTracks files, no file twice, in any order
AutoStores ==
    {s \in Stores : \A j, k \in 1 .. Len(s) : s[j] = s[k] => j = k}

InitAuto ==
    /\ playlist \in {NewPlaylist(s) : s \in AutoStores}
    /\ NoPlaylistCalls
    /\ NoBuild
    /\ pc = "built"
    /\ stderr = <<>>
    /\ NewBackend
    /\ input_chan = <<>>
    /\ NewOutput
    /\ NoExtraction

SpecAuto ==
    InitAuto /\ [][NextAuto]_vars
        /\ WF_vars(MainThread) /\ WF_vars(StreamingThread)

-----------------------------------------------------------------------------
(* Claims about the seek commands *)

\* C13: seek_backward() at position p requests max(0, p - 5 s), never a
\* negative position; seek_forward() at p requests p + 5 s; with no
\* position reported neither requests a seek; both return Ok whether or
\* not the engine accepts the seek.
C13_SeekOffsetsClamped ==
    /\ call \in {"seek_forward", "seek_backward"} => ret.ret = "Ok"
    /\ (call \in {"seek_forward", "seek_backward"}
           /\ Unwrap(pre).position = None) => ret.request = None
    /\ (call = "seek_forward" /\ IsSome(Unwrap(pre).position)) =>
           ret.request = Some(Unwrap(Unwrap(pre).position) + 5)
    /\ (call = "seek_backward" /\ IsSome(Unwrap(pre).position)) =>
           LET p == Unwrap(Unwrap(pre).position)
           IN  /\ Unwrap(ret.request) >= 0
               /\ ret.request = Some(IF p - 5 > 0 THEN p - 5 ELSE 0)

\* seek_backward() three seconds into the track, the engine refusing the
\* seek: position 0 was requested and Ok returned
C13_Witness ==
    /\ call = "seek_backward"
    /\ Unwrap(pre) = [accepted |-> FALSE, position |-> Some(3)]
    /\ ret = [ret |-> "Ok", request |-> Some(0)]

-----------------------------------------------------------------------------
(* Claims about the metadata of a track *)

\* C14: album title = the tag or "Unknown album"; artist = the tag or
\* "Unknown artist"; album-artist = the tag or else the extracted artist;
\* title = the tag or else the file's base name with the extension
\* stripped; track number = the tag or 0.
C14_FieldFallbacks ==
    call = "read_metadata" =>
        LET tags == Unwrap(pre).tags
            name == Unwrap(pre).path
            song == Unwrap(ret)
        IN  /\ song.album_title = IF IsSome(tags.album) THEN Unwrap(tags.album)
                                  ELSE UnknownAlbum
            /\ song.artist = IF IsSome(tags.artist) THEN Unwrap(tags.artist)
                             ELSE UnknownArtist
            /\ song.album_artist = IF IsSome(tags.album_artist)
                                   THEN Unwrap(tags.album_artist)
                                   ELSE song.artist
            /\ song.title = IF IsSome(tags.title) THEN Unwrap(tags.title)
                            ELSE file_stem(name)
            /\ song.track_number = IF IsSome(tags.track_number)
                                   THEN Unwrap(tags.track_number) ELSE 0

-----------------------------------------------------------------------------
(* Claims about unattended playback *)

\* the index in the store of the track whose URI is `uri`; Length if none
TrackAt(uri) ==
    LET at == {j \in 0 .. Length - 1 :
                  uri = Some(to_uri(playlist.store[j + 1].path))}
    IN  IF at = {} THEN Length ELSE CHOOSE j \in at : TRUE

\* C15: with no input and no failure the engine is pointed at tracks
\* 0, 1, ..., len-1 in order, each once: a dequeue() that hands a URI over
\* hands over that of the track after the one the engine is on, and the
\* stream is left to end only on the last track; when the loop ends the
\* cursor and the engine are on the last track; and the loop does end.
C15_PlaysEveryTrackOnce ==
    /\ [][/\ (AboutToFinish /\ IsSome(next_uri)) =>
                TrackAt(playbin'.uri) = TrackAt(playbin.uri) + 1
          /\ (AboutToFinish /\ next_uri = None) =>
                TrackAt(playbin.uri) = Length - 1]_vars
    /\ [](pc = "quit" =>
             Cursor = Length - 1 /\ TrackAt(playbin.uri) = Length - 1)
    /\ <>(pc = "quit")

-----------------------------------------------------------------------------
(* Claims about the pending next-URI *)

\* the URI of track j of the store (0-based, as the cursor counts)
UriOf(j) == Some(to_uri(playlist.store[j + 1].path))

\* C16: whenever the loop runs and the Backend channel is empty, the
\* pending next-URI is the URI of the track at cursor + 1, or None when
\* the cursor is on the last track.
C16_PendingIsNextTrack ==
    (pc = "loop" /\ main_chan = <<>>) =>
        next_uri = IF Cursor + 1 < Length THEN UriOf(Cursor + 1) ELSE None

\* the cursor has moved on to the second of three tracks, every message
\* is handled, and the slot holds the third track's URI
C16_Witness ==
    /\ pc = "loop"
    /\ main_chan = <<>>
    /\ Length = 3
    /\ Cursor = 1
    /\ playbin.uri = UriOf(1)
    /\ next_uri = UriOf(2)

-----------------------------------------------------------------------------
(* Claims about play() *)

\* the three requests of play(song) have been made of the engine and
\* nothing else of the Backend has changed
Played(song) ==
    /\ playbin' = [playbin EXCEPT !.state = "Playing",
                                  !.uri = Some(to_uri(Unwrap(song).path))]
    /\ next_uri' = next_uri
    /\ main_chan' = main_chan
    /\ pc' = "sending"

\* C17: a successful play(track), whatever the transport state before it,
\* ends in Playing with the engine pointed at track's URI, the muted flag
\* and the pending next-URI as they were, and sends exactly one
\* RequestNextSong: play() is left only by that send.
C17_PlayStartsTrack ==
    [][/\ (StartPlayback /\ pc' = "sending")
            => Played(Playlist_current(playlist).ret)
       /\ (NextWith(0) /\ IsSome(Playlist_next(playlist).ret))
            => Played(Playlist_next(playlist).ret)
       /\ (PrevWith(0) /\ IsSome(Playlist_prev(playlist).ret))
            => Played(Playlist_prev(playlist).ret)
       /\ (pc = "sending" /\ pc' # "sending") =>
            /\ main_chan' = Append(main_chan, RequestNextSong)
            /\ pc' = "loop"
            /\ UNCHANGED <<playbin, next_uri>>]_vars

\* play() of the second track has made its requests and is about to
\* send: the engine plays, still muted, and the slot still holds what it
\* held
C17_Witness ==
    /\ pc = "sending"
    /\ Cursor = 1
    /\ playbin = [state |-> "Playing", uri |-> UriOf(1), mute |-> TRUE]
    /\ next_uri = UriOf(1)

-----------------------------------------------------------------------------
(* Claims about the Next and Prev inputs *)

\* the handler changed nothing and went back to the loop
NoOp ==
    /\ UNCHANGED <<playlist, playbin, next_uri, main_chan>>
    /\ pc' = "loop"

\* the cursor moved by `d` and play() was called with the track now at
\* the cursor: its requests were made of the engine, the last of them
\* pointing it at that track, unless one of them failed
MovedAndPlayed(d) ==
    /\ playlist' = [playlist EXCEPT !.currently_playing = @ + d]
    /\ \/ pc' = "sending" /\ playbin'.uri = UriOf(Cursor + d)
                          /\ playbin'.state = "Playing"
       \/ pc' = "panicked"

\* C18: Next with the cursor on the last track and Prev with the cursor
\* on the first are no-ops: cursor, engine URI, transport state and
\* pending next-URI stay and nothing is sent; in every other case the
\* cursor moves by exactly one and play() is called with the track there.
C18_NextPrevAtTheEnds ==
    [][/\ OnNext => IF Cursor = Length - 1 THEN NoOp ELSE MovedAndPlayed(1)
       /\ OnPrev => IF Cursor = 0 THEN NoOp ELSE MovedAndPlayed(-1)]_vars

\* Prev from the second of three tracks: the cursor is back on the first,
\* the engine plays it, and the slot still holds the third track's URI
C18_Witness ==
    /\ pc = "sending"
    /\ Length = 3
    /\ Cursor = 0
    /\ playbin.uri = UriOf(0)
    /\ playbin.state = "Playing"
    /\ next_uri = UriOf(2)
    /\ input_chan = <<>>

-----------------------------------------------------------------------------
(* Claims about stopping *)

\* C19: a Stop that is handled tears the engine down and sends
\* ReachedEndOfPlaylist; once that message waits, whatever waits with it,
\* the loop ends by the handling of it and in no other way, and it does
\* end.
C19_StopEndsTheLoop ==
    /\ [][/\ StopWith(0) =>
               /\ playbin'.state = "Null"
               /\ main_chan' = Append(main_chan, ReachedEndOfPlaylist)
          /\ (NumOf(ReachedEndOfPlaylist, main_chan) > 0
                  /\ Running /\ ~Running') => OnReachedEndOfPlaylist]_vars
    /\ (NumOf(ReachedEndOfPlaylist, main_chan) > 0) ~> (pc = "quit")

-----------------------------------------------------------------------------
(* Claims about toggle_pause() *)

\* C20: toggle_pause() takes Playing to Paused, Paused to Playing and any
\* other transport state to Playing, and a second toggle_pause() after one
\* from Playing or from Paused gives the starting state back.
C20_PauseToggles ==
    [][PauseWith(0) =>
         /\ playbin.state = "Playing" => playbin'.state = "Paused"
         /\ playbin.state = "Paused" => playbin'.state = "Playing"
         /\ playbin.state \notin {"Playing", "Paused"}
                => playbin'.state = "Playing"
         /\ playbin.state \in {"Playing", "Paused"}
                => PauseTarget(playbin'.state) = playbin.state
         /\ playbin' = [playbin EXCEPT !.state = playbin'.state]]_vars

\* Pause pressed after a Stop whose ReachedEndOfPlaylist still waits: the
\* stopped engine was taken to Playing
C20_Witness ==
    /\ pc = "loop"
    /\ main_chan = <<ReachedEndOfPlaylist>>
    /\ playbin.state = "Playing"
    /\ stream = "streaming"
    /\ input_chan = <<>>

-----------------------------------------------------------------------------
(* Claims about muting *)

\* C21: toggle_mute() inverts the muted flag and leaves the transport
\* state and the engine's URI as they were; a second toggle_mute() brings
\* the flag back to what it was; when the read or the write of the flag
\* fails, the flag is unchanged.
C21_MuteToggles ==
    [][\A fail \in 0 .. 2 :
         MuteWith(fail) =>
            /\ playbin'.state = playbin.state
            /\ playbin'.uri = playbin.uri
            /\ stream' = stream
            /\ (fail = 0) =>
                  /\ playbin'.mute = ~playbin.mute
                  /\ toggle_mute_value(playbin'.mute) = playbin.mute
            /\ (fail # 0) => playbin'.mute = playbin.mute]_vars

\* muted while a track plays: toggle_mute() has acted
C21_Witness ==
    /\ pc = "loop"
    /\ playbin.mute
    /\ playbin.state = "Playing"
    /\ IsSome(playbin.uri)

-----------------------------------------------------------------------------
(* Claims about the worker pool *)

\* Playlist::from has returned, or has left through the usage exit
FromReturned == pc \notin {"from_push", "from_drop_pool", "from_collect"}

\* C22: Playlist::from returns only after every task pushed to the pool
\* has ended and its result has been taken out of the channel: collection
\* starts with one result per task in the channel, the playlist returned
\* holds the track of every task that yielded one, and after the return no
\* task is queued or running and nothing is in the channel.
C22_ReturnsAfterEveryTask ==
    /\ pc = "from_collect" =>
          /\ TasksIn("done") = Tasks
          /\ Len(rx) = Len(files)
    /\ FromReturned =>
          /\ TasksIn("done") = Tasks
          /\ rx = <<>>
    /\ Built =>
          \A t \in Succeeded : \E j \in 1 .. Len(Store) : Store[j] = SongOf(t)

\* `from` has returned a playlist of as many tracks as the bound allows
C22_Witness ==
    /\ Built
    /\ Len(files) = MaxFiles
    /\ Len(Store) = MaxFiles
    /\ TasksIn("done") = Tasks

\* C23: at no time do more than N_WORKERS (8) extraction tasks run,
\* however many files are pushed, and every pair pushed is extracted
\* exactly once: a task starts only from the queue, ends only from
\* running, sends its one result as it ends, and once done stays done.
C23_AtMostNWorkers ==
    [][/\ Cardinality({t \in Tasks : task'[t] = "running"}) <= N_WORKERS
       /\ \A t \in Tasks :
            /\ (task[t] # "running" /\ task'[t] = "running") =>
                  task[t] = "queued"
            /\ (task[t] # "done" /\ task'[t] = "done") =>
                  /\ task[t] = "running"
                  /\ rx' = Append(rx, [i |-> files[t].i,
                                       song |-> Song_from(files[t].file)])
            /\ task[t] = "done" => task'[t] = "done"
       /\ (pc' = "from_collect") => Len(rx') = Len(files)]_vars

\* every worker is busy and a ninth task waits in the queue
C23_Witness ==
    /\ Cardinality(TasksIn("running")) = N_WORKERS
    /\ TasksIn("queued") # {}

-----------------------------------------------------------------------------
(* SpecExtract: Song::from (song.rs:33-46) on one file of the Catalogue,   *)
(* the file in `pre`.  `playbin` is the extraction pipeline, `bus` its     *)
(* message bus and `stream` its streaming thread; `pc` is where the worker *)
(* thread is in Song::from and `ret` what Song::from returns.              *)

\* the messages get_track_info tells apart (song.rs:81-90)
Tag(t)       == [tags |-> t, type |-> "Tag"]
BusError     == [type |-> "Error"]
BusEos       == [type |-> "Eos"]
StateChanged == [type |-> "StateChanged"]

ExtractedFile == Unwrap(pre)

\* what the engine may post for the file while its pipeline plays
BusMessages == {Tag(ExtractedFile.tags), BusError, BusEos, StateChanged}

\* what query_duration::<Time>() may answer (song.rs:95-97)
DurationReports == {None, Some(1)}

\* song.rs:34  Self::setup_pipeline().ok()?  An Err of set_property or
\* disable_video (song.rs:58-59) makes Song::from return None.
SetupPipeline ==
    /\ pc = "song_from"
    /\ \E ok \in BOOLEAN :
          IF ok THEN pc' = "track_info" /\ UNCHANGED <<call, ret>>
                ELSE pc' = "returned" /\ call' = "from" /\ ret' = None
    /\ UNCHANGED <<playlist, pre, buildVars, stderr, backendVars,
                   input_chan, output, track_info>>

\* song.rs:67-75: the locals, the URI, set_state(Playing).  Either
\* .expect panics on an Err: request 1 is set_property, 2 is set_state.
StartPipeline ==
    /\ pc = "track_info"
    /\ track_info' = [duration |-> None, tags |-> None]
    /\ \E fail \in 0 .. 2 :
          CASE fail = 1 -> /\ pc' = "panicked"
                           /\ UNCHANGED <<playbin, stream>>
            [] fail = 2 -> /\ pc' = "panicked"
                           /\ playbin' = [playbin EXCEPT
                                 !.uri = Some(to_uri(ExtractedFile.path))]
                           /\ UNCHANGED stream
            [] OTHER    -> /\ pc' = "get_bus"
                           /\ playbin' = [playbin EXCEPT
                                 !.uri = Some(to_uri(ExtractedFile.path)),
                                 !.state = "Playing"]
                           /\ stream' = "streaming"
    /\ UNCHANGED <<playlist, playlistVars, buildVars, stderr, next_uri,
                   main_chan, bus, enq, input_chan, output>>

\* song.rs:80  playbin.bus()?  With no bus get_track_info returns None at
\* once, and Song::from with it (song.rs:36).
GetBus ==
    /\ pc = "get_bus"
    /\ \E available \in BOOLEAN :
          IF available THEN pc' = "bus_iter" /\ UNCHANGED <<call, ret>>
                       ELSE pc' = "returned" /\ call' = "from" /\ ret' = None
    /\ UNCHANGED <<playlist, pre, buildVars, stderr, backendVars,
                   input_chan, output, track_info>>

\* the engine posts `m` on the bus of the playing pipeline; Eos and Error
\* are the last it posts
EnginePost(m) ==
    /\ pc \in {"get_bus", "bus_iter", "cleanup", "returned"}
    /\ playbin.state = "Playing"
    /\ stream = "streaming"
    /\ Len(bus) < MaxBus
    /\ bus' = Append(bus, m)
    /\ stream' = CASE m.type = "Eos"   -> "eos"
                   [] m.type = "Error" -> "idle"
                   [] OTHER            -> stream
    /\ UNCHANGED <<playlist, playlistVars, buildVars, pc, stderr, playbin,
                   next_uri, main_chan, enq, input_chan, output, track_info>>

\* song.rs:80-103: one turn of the loop over iter_timed(ClockTime::NONE),
\* which waits for the next message however long that takes.  `q` is the
\* answer of query_duration, asked only while no duration is known.
BusMessage ==
    /\ pc = "bus_iter"
    /\ bus # <<>>
    /\ bus' = Tail(bus)
    /\ LET msg == Head(bus)
       IN  \E q \in DurationReports :
              LET tags1 == IF msg.type = "Tag" THEN Some(msg.tags)
                           ELSE track_info.tags
                  dur1  == IF IsSome(track_info.duration)
                           THEN track_info.duration ELSE q
              IN  IF msg.type = "Error"
                  THEN pc' = "cleanup" /\ UNCHANGED track_info
                  ELSE /\ track_info' = [duration |-> dur1, tags |-> tags1]
                       /\ pc' = IF IsSome(dur1) /\ IsSome(tags1)
                                THEN "cleanup" ELSE "bus_iter"
    /\ UNCHANGED <<playlist, playlistVars, buildVars, stderr, playbin,
                   next_uri, main_chan, stream, enq, input_chan, output>>

\* song.rs:106-110 and 38-45: set_state(Null), panicking on an Err; then
\* Some((duration?, tags?)), of which Song::from makes the Song
Cleanup ==
    /\ pc = "cleanup"
    /\ \E fail \in 0 .. 1 :
          IF fail = 1
          THEN pc' = "panicked" /\ UNCHANGED <<call, ret, playbin, stream>>
          ELSE /\ pc' = "returned"
               /\ call' = "from"
               /\ playbin' = [playbin EXCEPT !.state = "Null"]
               /\ stream' = "idle"
               /\ ret' = IF IsSome(track_info.duration)
                            /\ IsSome(track_info.tags)
                         THEN Some(read_metadata(ExtractedFile.path,
                                                 Unwrap(track_info.tags)))
                         ELSE None
    /\ UNCHANGED <<playlist, pre, buildVars, stderr, next_uri, main_chan,
                   bus, enq, input_chan, output, track_info>>

InitExtract ==
    /\ playlist = NewPlaylist(<<>>)
    /\ call = "new" /\ ret = None
    /\ pre \in {Some(f) : f \in Catalogue}
    /\ NoBuild
    /\ pc = "song_from"
    /\ stderr = <<>>
    /\ NewBackend
    /\ input_chan = <<>>
    /\ NewOutput
    /\ NoExtraction

\* the worker thread the task runs on
ExtractorThread ==
    SetupPipeline \/ StartPipeline \/ GetBus \/ BusMessage \/ Cleanup

\* the stream of the file comes to its end, or fails
StreamEnds == EnginePost(BusEos) \/ EnginePost(BusError)

NextExtract ==
    \/ SetupPipeline
    \/ StartPipeline
    \/ GetBus
    \/ \E m \in BusMessages : EnginePost(m)
    \/ BusMessage
    \/ Cleanup

\* The worker thread runs whenever it can, and no stream goes on forever.
SpecExtract ==
    /\ InitExtract
    /\ [][NextExtract]_vars
    /\ WF_vars(ExtractorThread)
    /\ SF_vars(StreamEnds)

-----------------------------------------------------------------------------
(* Claims about the extraction of one file *)

ExtractionEnded == pc \in {"returned", "panicked"}

\* C24: an extraction task always ends, with a track or with nothing,
\* whatever the engine posts on the bus for the file.
C24_ExtractionEnds == <>ExtractionEnded

\* C25: when Song::from returns, with a track or with nothing, its
\* pipeline is in the Null state.
C25_PipelineTornDown == (pc = "returned") => playbin.state = "Null"

-----------------------------------------------------------------------------
(* SpecDisplay: the main loop of Spec with the 100 ms timer of the Backend *)
(* (backend.rs:82-90) and the redraw of its snapshots (main.rs:93-96,      *)
(* output.rs:50-71).  `call` and `ret` are the last refresh and what it    *)
(* returned.                                                               *)

\* a playing flag that is set only while the engine plays
Backend_playing_strict(pb) == pb.state = "Playing"

\* Backend::playing
Backend_playing(pb) == pb.state # "Paused"

\* Backend::muted, the "mute" property readable or not
Backend_muted(pb, readable) == IF readable THEN pb.mute ELSE FALSE

\* Backend::position with `q` the answer of query_position:
\* unwrap_or_default() makes no answer the start of the track
Backend_position(q) == IF IsSome(q) THEN Unwrap(q) ELSE 0

\* Backend::state
Backend_state(pb, q, readable) ==
    [muted    |-> Backend_muted(pb, readable),
     position |-> Backend_position(q),
     playing  |-> Backend_playing(pb)]

\* BackendMessage::State (backend.rs:32)
State(s) == [state |-> s, type |-> "State"]

\* the snapshots waiting in a channel
Snapshots(chan) == {k \in 1 .. Len(chan) : chan[k].type = "State"}

\* the answers to the position query tried by the timer
TimerPositionReports == {None, Some(SeekOffset)}

\* backend.rs:83-90: the timer source of the main loop sends a snapshot,
\* the position query answering `q`, the "mute" property readable or not
TimerWith(q, readable) ==
    /\ pc = "loop"
    /\ Len(main_chan) < MaxChan
    /\ Cardinality(Snapshots(main_chan)) < MaxState
    /\ Send(State(Backend_state(playbin, q, readable)))
    /\ UNCHANGED <<playlist, pc, playbin, next_uri, bus, stream, enq,
                   input_chan, loopFrame>>

Timer == \E q \in TimerPositionReports, readable \in BOOLEAN :
             TimerWith(q, readable)

\* the terminals tried: one row, and more rows than any playlist needs
TerminalHeights == {1, 24}

Min(a, b) == IF a <= b THEN a ELSE b
Max(a, b) == IF a >= b THEN a ELSE b

\* Output::generate_output, by the number of lines it returns: `total`
\* lines made, line `center` the playing track's, a terminal of `height`
\* rows (output.rs:115-124)
generate_output(total, center, height) ==
    IF total <= height THEN total
    ELSE IF total - center < height \div 2 THEN total - (total - height)
    ELSE LET start_index == saturating_sub(center, height \div 2)
             end_index   == Min(total, start_index + height)
         IN  end_index - start_index

\* Output::generate_help, by the number of lines (output.rs:128-166)
generate_help(height) == Max(7, height)

\* the playlists of the loop show as one album: a line for the album and
\* one for each track (output.rs:91-111)
OutputLines(out, pl, height) ==
    IF out.display_help THEN generate_help(height)
    ELSE generate_output(Len(pl.store) + 1, pl.currently_playing + 1, height)

\* the steps of refresh that can fail: 1 the write that moves the cursor
\* up, 2 terminal_size in generate_output or generate_help, 3 and 4 the
\* writes of the lines and of "\r", 5 the flush.  0 is "none fails".
RefreshSteps == 0 .. 5

\* Output::refresh: the Output afterwards and the Result
Output_refresh(out, pl, height, fail) ==
    IF fail \in 1 .. 4
    THEN [ret |-> "Err", output |-> out]
    ELSE [ret |-> IF fail = 5 THEN "Err" ELSE "Ok",
          output |-> [out EXCEPT
                        !.lines_printed = OutputLines(out, pl, height) - 1]]

\* a handler that panics on a failed redraw as the input handler does on a
\* failed command
StateWith_expecting(fail, height) ==
    /\ pc = "loop"
    /\ main_chan # <<>>
    /\ Head(main_chan).type = "State"
    /\ (fail = 1) => output.lines_printed > 0
    /\ main_chan' = Tail(main_chan)
    /\ LET r == Output_refresh(output, playlist, height, fail)
       IN  /\ output' = r.output
           /\ call' = "refresh"
           /\ ret' = Some(r.ret)
           /\ pc' = IF r.ret = "Ok" THEN "loop" ELSE "panicked"
    /\ UNCHANGED <<playlist, pre, buildVars, stderr, playbin, next_uri,
                   bus, stream, enq, input_chan, track_info>>

\* main.rs:93-96: refresh(state, &playlist).ok(), step `fail` failing on a
\* terminal of `height` rows
StateWith(fail, height) ==
    /\ pc = "loop"
    /\ main_chan # <<>>
    /\ Head(main_chan).type = "State"
    /\ (fail = 1) => output.lines_printed > 0
    /\ main_chan' = Tail(main_chan)
    /\ LET r == Output_refresh(output, playlist, height, fail)
       IN  /\ output' = r.output
           /\ call' = "refresh"
           /\ ret' = Some(r.ret)
    /\ UNCHANGED <<playlist, pc, pre, buildVars, stderr, playbin, next_uri,
                   bus, stream, enq, input_chan, track_info>>

OnState == \E fail \in RefreshSteps, height \in TerminalHeights :
               StateWith(fail, height)

NextDisplay == Next \/ Timer \/ OnState

SpecDisplay == Init /\ [][NextDisplay]_vars

-----------------------------------------------------------------------------
(* Claims about the display *)

\* C26: a redraw that fails is skipped: the handler of the State message
\* drops the Err, the playlist with its cursor, the engine's state and the
\* pending next-URI are as before, the loop runs on, and the message
\* behind the snapshot is the next one of the channel.
C26_FailedRedrawIsSkipped ==
    [][\A fail \in 1 .. 5, height \in TerminalHeights :
         StateWith(fail, height) =>
            /\ ret' = Some("Err")
            /\ pc' = "loop"
            /\ UNCHANGED <<playlist, playbin, next_uri, stream, bus,
                           input_chan, enq>>
            /\ main_chan' = Tail(main_chan)]_vars

\* a redraw has failed while a track plays, and a message waits
C26_Witness ==
    /\ call = "refresh"
    /\ ret = Some("Err")
    /\ pc = "loop"
    /\ playbin.state = "Playing"
    /\ main_chan # <<>>

\* no message but a snapshot is added to the Backend channel
NoMessageSent ==
    \A m \in {ReachedEndOfSong, RequestNextSong, ReachedEndOfPlaylist} :
        NumOf(m, main_chan') <= NumOf(m, main_chan)

\* C27: the handlers of Mute, Pause, SeekForward and SeekBackward, the
\* timer and the handler of its State messages leave the playlist cursor
\* and the pending next-URI alone and send none of ReachedEndOfSong,
\* RequestNextSong and ReachedEndOfPlaylist; a step that changes the
\* cursor is the handling of Next, of Prev or of ReachedEndOfSong.
C27_CursorMovesOnlyOnNextPrevEndOfSong ==
    [][/\ (OnMute \/ OnPause \/ OnSeek \/ Timer \/ OnState) =>
             /\ playlist' = playlist
             /\ next_uri' = next_uri
             /\ NoMessageSent
       /\ (playlist'.currently_playing # playlist.currently_playing) =>
             (OnNext \/ OnPrev \/ OnReachedEndOfSong)]_vars

\* muted, paused and redrawn, the cursor still on the first of the tracks
\* and the second still pending
C27_Witness ==
    /\ pc = "loop"
    /\ playbin.mute
    /\ playbin.state = "Paused"
    /\ call = "refresh"
    /\ Cursor = 0
    /\ Length = MaxTracks
    /\ next_uri = UriOf(1)

\* C30: the playing flag of a snapshot is true exactly when the engine is
\* not in the Paused state as the snapshot is taken, so it is true in Null
\* and Ready; the muted flag is the engine's when the property can be read
\* and false when it cannot.
C30_SnapshotFlags ==
    [][\A q \in TimerPositionReports, readable \in BOOLEAN :
         TimerWith(q, readable) =>
            LET s == main_chan'[Len(main_chan')].state
            IN  /\ s.playing = (playbin.state # "Paused")
                /\ (playbin.state \in {"Null", "Ready"}) => s.playing
                /\ readable => s.muted = playbin.mute
                /\ ~readable => ~s.muted]_vars

\* after stop() the engine is in Null, and a snapshot taken since then,
\* behind the ReachedEndOfPlaylist of stop(), says "playing"
C30_Witness ==
    /\ pc = "loop"
    /\ playbin.state = "Null"
    /\ \E k \in Snapshots(main_chan) :
          /\ main_chan[k].state.playing
          /\ \E j \in 1 .. k - 1 : main_chan[j] = ReachedEndOfPlaylist

-----------------------------------------------------------------------------
(* Claims about dequeue() *)

\* C28: dequeue() leaves the pending next-URI slot as it is: a pending URI
\* is handed to the engine, ReachedEndOfSong and RequestNextSong are sent,
\* and the slot still holds the URI, so that a dequeue() on a slot whose
\* URI the engine already has hands it over and sends the two messages
\* again; the slot changes only when RequestNextSong is handled.
C28_DequeueKeepsPending ==
    [][/\ AboutToFinish =>
             /\ next_uri' = next_uri
             /\ IsSome(next_uri) =>
                   /\ playbin'.uri = next_uri
                   /\ main_chan' =
                         main_chan \o <<ReachedEndOfSong, RequestNextSong>>
       /\ (next_uri' # next_uri) => OnRequestNextSong]_vars

\* the engine was handed the second track, the cursor has followed, and
\* before the RequestNextSong of that dequeue() is handled a further
\* dequeue() has handed the same URI over and sent both messages again
C28_Witness ==
    /\ pc = "loop"
    /\ input_chan = <<>>
    /\ main_chan = <<RequestNextSong, ReachedEndOfSong, RequestNextSong>>
    /\ Cursor = 1
    /\ next_uri = UriOf(1)
    /\ playbin.uri = next_uri
    /\ enq = Some(playlist.store[2])

\* the pending next-URI that follows the track the engine is on
AfterEngineTrack ==
    IF TrackAt(playbin.uri) + 1 < Length
    THEN UriOf(TrackAt(playbin.uri) + 1) ELSE None

\* C29: dequeue() sends ReachedEndOfSong and then RequestNextSong, every
\* ReachedEndOfSong in the channel has its RequestNextSong right behind it,
\* so that the two are handled in that order, and the next-URI set when a
\* RequestNextSong is handled is that of the track after the cursor, which
\* is the track after the one the engine has switched to.
C29_NextIsTakenAfterTheSwitch ==
    [][/\ (AboutToFinish /\ IsSome(next_uri)) =>
             main_chan' = main_chan \o <<ReachedEndOfSong, RequestNextSong>>
       /\ \A k \in 1 .. Len(main_chan') :
             main_chan'[k] = ReachedEndOfSong =>
                /\ k < Len(main_chan')
                /\ main_chan'[k + 1] = RequestNextSong
       /\ OnRequestNextSong =>
             /\ next_uri' = IF Cursor + 1 < Length THEN UriOf(Cursor + 1)
                            ELSE None
             /\ next_uri' = AfterEngineTrack]_vars

=============================================================================
